---- MODULE Spec2Model ----
(***************************************************************************)
(* Petra wallet extension: the dapp-facing public API (PetraPublicApiImpl) *)
(* and the coin transfer hooks (useCoinTransferSimulation,                 *)
(* useCoinTransferTransaction).                                            *)
(*                                                                         *)
(* The public API is modelled as one call in flight, one step per await    *)
(* that reads or writes shared state (persistent storage, session storage, *)
(* the active tab, the permission grants), interleaved with the changes    *)
(* the user makes to that state from the wallet UI and the browser.        *)
(***************************************************************************)
EXTENDS Integers, Sequences, FiniteSets, TLC

VARIABLES
    activeAccountAddress,    \* PersistentStorage.activeAccountAddress
    activeAccountPublicKey,  \* PersistentStorage.activeAccountPublicKey
    activeNetworkName,       \* PersistentStorage.activeNetworkName
    grants,                  \* the domain permissions: (domain, address) pairs
    sessionUnlocked,         \* SessionStorage.accounts is defined
    tabUrl,                  \* url of the active tab of the current window
    call,                    \* frame of the public API call in flight
    outcome,                 \* how the last call ended
    fx,                      \* what the call in flight did to the outside
    lifecycle,               \* history: how the last connect or disconnect that returned ended
    simulation,              \* useCoinTransferSimulation: its last render
    mutation,                \* useCoinTransferTransaction: the mutation in flight
    balanceQuery             \* the cached getAccountOctaCoinBalance query

apiVars == <<activeAccountAddress, activeAccountPublicKey, activeNetworkName,
             grants, sessionUnlocked, tabUrl, call, outcome, fx, lifecycle>>

hookVars == <<simulation, mutation, balanceQuery>>

vars == <<apiVars, hookVars>>

Undefined == "undefined"

(***************************************************************************)
(* Values                                                                  *)
(***************************************************************************)
Addresses == {"0xA", "0xB"}

PublicKeyOf(address) ==
    CASE address = "0xA" -> "pkA"
      [] address = "0xB" -> "pkB"
      [] OTHER -> Undefined

TabUrls == {"https://app.one/", "https://app.one/swap", "https://two.xyz/"}

Domains == {"app.one", "two.xyz"}

Methods == {"account", "connect", "disconnect", "isConnected", "network",
            "signTransaction", "signAndSubmitTransaction", "signMessage"}

\* The methods whose first guard is ensureAccountConnected.
ConnectedMethods == {"account", "disconnect", "network", "signTransaction",
                     "signAndSubmitTransaction", "signMessage"}

\* The methods that call Permissions.requestPermissions.
PromptingMethods == {"connect", "signTransaction", "signAndSubmitTransaction",
                     "signMessage"}

\* The methods that wrap the SDK steps in try/catch.
TransactionMethods == {"signTransaction", "signAndSubmitTransaction"}

\* DappErrorType and the DappError of makeTransactionError.
ErrorKinds == {"NO_ACCOUNTS", "UNAUTHORIZED", "USER_REJECTION", "TRANSACTION_FAILURE"}

DappError(name) == [name |-> name, message |-> ""]

JsError(message) == [name |-> "Error", message |-> message]

MakeTransactionError(error) == [name |-> "TRANSACTION_FAILURE", message |-> error.message]

UndefinedAccount == [address |-> Undefined, publicKey |-> Undefined]

DefaultNetworkName == "Devnet"

NetworkNames == {"Devnet", "Testnet"}

Networks == [n \in NetworkNames |-> [name |-> n, nodeUrl |-> IF n = "Devnet" THEN "https://devnet" ELSE "https://testnet"]]

(***************************************************************************)
(* Utils                                                                   *)
(***************************************************************************)
\* new URL(url).hostname
Hostname(url) ==
    CASE url = "https://app.one/" -> "app.one"
      [] url = "https://app.one/swap" -> "app.one"
      [] url = "https://two.xyz/" -> "two.xyz"
      [] OTHER -> Undefined

\* A faulty getActiveAccount: the public key is not looked at.
GetActiveAccountAddressOnly ==
    IF activeAccountAddress # Undefined
    THEN [address |-> activeAccountAddress, publicKey |-> activeAccountPublicKey]
    ELSE UndefinedAccount

GetActiveAccount ==
    IF activeAccountAddress # Undefined /\ activeAccountPublicKey # Undefined
    THEN [address |-> activeAccountAddress, publicKey |-> activeAccountPublicKey]
    ELSE UndefinedAccount

GetActiveNetwork ==
    Networks[IF activeNetworkName = Undefined THEN DefaultNetworkName ELSE activeNetworkName]

IsDomainAllowed(domain, address) == <<domain, address>> \in grants

PermissionOf(method) ==
    CASE method = "connect" -> "CONNECT"
      [] method = "signTransaction" -> "SIGN_TRANSACTION"
      [] method = "signAndSubmitTransaction" -> "SIGN_AND_SUBMIT_TRANSACTION"
      [] method = "signMessage" -> "SIGN_MESSAGE"
      [] OTHER -> "none"

(***************************************************************************)
(* The call frame                                                          *)
(***************************************************************************)
NoPrompt == [kind |-> "none", domain |-> Undefined, address |-> Undefined]

NoFx == [prompt |-> NoPrompt, keyRead |-> Undefined, sdk |-> {},
         removed |-> {}, sdkError |-> ""]

IdleCall == [method |-> "none", pc |-> "idle", arg |-> Undefined,
             account |-> UndefinedAccount, checkedDomain |-> Undefined,
             isAllowed |-> FALSE, domain |-> Undefined, allowed |-> FALSE,
             nodeUrl |-> Undefined]

NoOutcome == [kind |-> "none", error |-> DappError("none"), value |-> [type |-> "none"]]

Pending == [kind |-> "pending", error |-> DappError("none"), value |-> [type |-> "none"]]

Returned(value) == [kind |-> "returned", error |-> DappError("none"), value |-> value]

Thrown(error) == [kind |-> "thrown", error |-> error, value |-> [type |-> "none"]]

Running == call.pc \notin {"idle", "done"}

StorageVars == <<activeAccountAddress, activeAccountPublicKey, activeNetworkName,
                 sessionUnlocked, tabUrl>>

\* The call, its frame being `frame`, ends with `o`.
Finish(frame, o) ==
    /\ outcome' = o
    /\ call' = [frame EXCEPT !.pc = "done"]

\* getCurrentDomain: the hostname of the active tab, Undefined when the tab has no url
\* (the code then throws Error("Couldn't retrieve tab URL")).
GetCurrentDomain == IF tabUrl = Undefined THEN Undefined ELSE Hostname(tabUrl)

TabUrlError == JsError("Couldn't retrieve tab URL")

LockedError == JsError("accounts are locked")

(***************************************************************************)
(* The public API: a dapp invokes a method                                 *)
(***************************************************************************)
Invoke ==
    /\ ~Running
    /\ \E method \in Methods :
          call' = [IdleCall EXCEPT !.method = method,
                                   !.pc = "ensureActiveAccount",
                                   !.arg = IF method \in {"signTransaction", "signAndSubmitTransaction", "signMessage"}
                                           THEN "payload" ELSE Undefined]
    /\ outcome' = Pending
    /\ fx' = NoFx
    /\ UNCHANGED <<hookVars, lifecycle>>
    /\ UNCHANGED <<StorageVars, grants>>

\* A faulty AfterActiveAccount: every method goes on as connect and isConnected do,
\* with ensureActiveAccount in place of ensureAccountConnected.
AfterActiveAccountOnly(method) == "getCurrentDomain"

\* Where a method goes on once ensureActiveAccount has returned the account: into the
\* rest of ensureAccountConnected, or (connect, isConnected) into its own body.
AfterActiveAccount(method) ==
    IF method \in ConnectedMethods
    THEN "ensureAccountConnected.getCurrentDomain"
    ELSE "getCurrentDomain"

\* ensureActiveAccount: the first statement of every method.
EnsureActiveAccount ==
    /\ call.pc = "ensureActiveAccount"
    /\ LET activeAccount == GetActiveAccount IN
       IF activeAccount = UndefinedAccount
       THEN /\ fx' = [fx EXCEPT !.prompt = [kind |-> "WARNING", domain |-> Undefined, address |-> Undefined]]
            /\ Finish(call, Thrown(DappError("NO_ACCOUNTS")))
       ELSE /\ call' = [call EXCEPT !.account = activeAccount,
                                    !.pc = AfterActiveAccount(call.method)]
            /\ UNCHANGED <<outcome, fx>>
    /\ UNCHANGED <<hookVars, lifecycle>>
    /\ UNCHANGED <<StorageVars, grants>>

\* ensureAccountConnected, line 90: const domain = await getCurrentDomain()
EnsureAccountConnectedDomain ==
    /\ call.pc = "ensureAccountConnected.getCurrentDomain"
    /\ LET domain == GetCurrentDomain IN
       IF domain = Undefined
       THEN Finish(call, Thrown(TabUrlError))
       ELSE /\ call' = [call EXCEPT !.checkedDomain = domain,
                                    !.pc = "ensureAccountConnected.isDomainAllowed"]
            /\ UNCHANGED outcome
    /\ UNCHANGED <<hookVars, lifecycle>>
    /\ UNCHANGED <<StorageVars, grants, fx>>

\* What a method does once ensureAccountConnected has returned the account.
AfterConnected(frame) ==
    CASE frame.method = "account" -> Finish(frame, Returned([type |-> "account", account |-> frame.account]))
      [] frame.method = "network" -> /\ call' = [frame EXCEPT !.pc = "getActiveNetwork"]
                                     /\ UNCHANGED outcome
      [] OTHER -> /\ call' = [frame EXCEPT !.pc = "getCurrentDomain"]
                  /\ UNCHANGED outcome

\* A faulty Unauthorized: the guard never throws.
UnauthorizedNever(isAllowed) == FALSE

\* if (!isAllowed) throw DappErrorType.UNAUTHORIZED: whether ensureAccountConnected throws.
Unauthorized(isAllowed) == ~isAllowed

\* ensureAccountConnected, lines 91-95: the authorization guard.
EnsureAccountConnectedCheck ==
    /\ call.pc = "ensureAccountConnected.isDomainAllowed"
    /\ LET isAllowed == IsDomainAllowed(call.checkedDomain, call.account.address)
           frame == [call EXCEPT !.isAllowed = isAllowed]
       IN IF Unauthorized(isAllowed)
          THEN Finish(frame, Thrown(DappError("UNAUTHORIZED")))
          ELSE AfterConnected(frame)
    /\ UNCHANGED <<hookVars, lifecycle>>
    /\ UNCHANGED <<StorageVars, grants, fx>>

\* The method's own const domain = await getCurrentDomain()
MethodDomain ==
    /\ call.pc = "getCurrentDomain"
    /\ LET domain == GetCurrentDomain IN
       IF domain = Undefined
       THEN Finish(call, Thrown(TabUrlError))
       ELSE /\ call' = [call EXCEPT !.domain = domain,
                                    !.pc = CASE call.method \in PromptingMethods -> "requestPermissions"
                                             [] call.method = "disconnect" -> "removeDomain"
                                             [] OTHER -> "isDomainAllowed"]
            /\ UNCHANGED outcome
    /\ UNCHANGED <<hookVars, lifecycle>>
    /\ UNCHANGED <<StorageVars, grants, fx>>

(***************************************************************************)
(* Permissions.requestPermissions: the user is prompted and answers; an    *)
(* approved CONNECT adds the (domain, address) grant.                      *)
(***************************************************************************)
RequestPermissionsGrants(permission, domain, address, answer) ==
    IF permission = "CONNECT" /\ answer THEN grants \cup {<<domain, address>>} ELSE grants

\* Permissions.removeDomain
RemoveDomain(domain, address) == grants \ {<<domain, address>>}

\* A faulty RejectsOn: a denial is not looked at.
RejectsNever(allowed) == FALSE

\* if (!allowed) throw DappErrorType.USER_REJECTION: whether the method throws.
RejectsOn(allowed) == ~allowed

\* What a prompting method does once the permission is granted.
AfterPermission(frame) ==
    CASE frame.method = "connect" -> Finish(frame, Returned([type |-> "account", account |-> frame.account]))
      [] frame.method = "signMessage" -> /\ call' = [frame EXCEPT !.pc = "getAptosAccount"]
                                         /\ UNCHANGED outcome
      [] OTHER -> /\ call' = [frame EXCEPT !.pc = "getActiveNetwork"]
                  /\ UNCHANGED outcome

\* connect, signTransaction, signAndSubmitTransaction, signMessage:
\* await Permissions.requestPermissions(kind, domain, address), then the rejection guard.
RequestPermissions ==
    /\ call.pc = "requestPermissions"
    /\ \E answer \in BOOLEAN :
          LET permission == PermissionOf(call.method)
              frame == [call EXCEPT !.allowed = answer]
          IN /\ fx' = [fx EXCEPT !.prompt = [kind |-> permission, domain |-> call.domain,
                                             address |-> call.account.address]]
             /\ grants' = RequestPermissionsGrants(permission, call.domain, call.account.address, answer)
             /\ IF RejectsOn(answer)
                THEN Finish(frame, Thrown(DappError("USER_REJECTION")))
                ELSE AfterPermission(frame)
             /\ lifecycle' = IF call.method = "connect" /\ ~RejectsOn(answer) THEN "connected" ELSE lifecycle
    /\ UNCHANGED hookVars
    /\ UNCHANGED StorageVars

\* A faulty disconnect: the method returns without removing the domain.
DisconnectKeepsDomain ==
    /\ call.pc = "removeDomain"
    /\ Finish(call, Returned([type |-> "void"]))
    /\ lifecycle' = "disconnected"
    /\ UNCHANGED <<hookVars, StorageVars, grants, fx>>

\* disconnect, line 171: await Permissions.removeDomain(domain, address)
Disconnect ==
    /\ call.pc = "removeDomain"
    /\ grants' = RemoveDomain(call.domain, call.account.address)
    /\ fx' = [fx EXCEPT !.removed = {<<call.domain, call.account.address>>}]
    /\ Finish(call, Returned([type |-> "void"]))
    /\ lifecycle' = "disconnected"
    /\ UNCHANGED hookVars
    /\ UNCHANGED StorageVars

\* isConnected, line 181: return Permissions.isDomainAllowed(domain, address)
IsConnected ==
    /\ call.pc = "isDomainAllowed"
    /\ Finish(call, Returned([type |-> "boolean", bool |-> IsDomainAllowed(call.domain, call.account.address)]))
    /\ UNCHANGED <<hookVars, lifecycle>>
    /\ UNCHANGED <<StorageVars, grants, fx>>

\* network, line 189; signTransaction, line 263; signAndSubmitTransaction, line 213
ActiveNetwork ==
    /\ call.pc = "getActiveNetwork"
    /\ LET network == GetActiveNetwork IN
       IF call.method = "network"
       THEN Finish(call, Returned([type |-> "string", name |-> network.name]))
       ELSE /\ call' = [call EXCEPT !.nodeUrl = network.nodeUrl, !.pc = "getAptosAccount"]
            /\ UNCHANGED outcome
    /\ UNCHANGED <<hookVars, lifecycle>>
    /\ UNCHANGED <<StorageVars, grants, fx>>

(***************************************************************************)
(* The SDK-facing steps                                                    *)
(***************************************************************************)
\* A faulty ErrorOut: signAndSubmitTransaction has no try/catch either.
ErrorOutUncaught(method, error) ==
    IF method = "signTransaction" THEN MakeTransactionError(error) ELSE error

\* The error that reaches the dapp when an SDK-facing step of `method` throws `error`:
\* signTransaction and signAndSubmitTransaction catch it, signMessage does not.
ErrorOut(method, error) ==
    IF method \in TransactionMethods THEN MakeTransactionError(error) ELSE error

\* An SDK-facing step of the call throws `error`.
Fail(error) ==
    /\ fx' = [fx EXCEPT !.sdkError = error.message]
    /\ Finish(call, Thrown(ErrorOut(call.method, error)))

\* getAptosAccount(address): the signer, read from the session store
GetAptosAccount ==
    /\ call.pc = "getAptosAccount"
    /\ IF ~sessionUnlocked
       THEN Fail(LockedError)
       ELSE /\ fx' = [fx EXCEPT !.keyRead = call.account.address]
            /\ call' = [call EXCEPT !.pc = IF call.method = "signMessage"
                                           THEN "sign" ELSE "generateTransaction"]
            /\ UNCHANGED outcome
    /\ UNCHANGED <<hookVars, lifecycle>>
    /\ UNCHANGED <<StorageVars, grants>>

\* signTransaction (util), line 126: client.generateTransaction(signerAddress, payload)
GenerateTransaction ==
    /\ call.pc = "generateTransaction"
    /\ \E ok \in BOOLEAN :
          IF ~ok
          THEN Fail(JsError("generateTransaction failed"))
          ELSE /\ fx' = [fx EXCEPT !.sdk = @ \cup {"generateTransaction"}]
               /\ call' = [call EXCEPT !.pc = "signTransaction"]
               /\ UNCHANGED outcome
    /\ UNCHANGED <<hookVars, lifecycle>>
    /\ UNCHANGED <<StorageVars, grants>>

\* signTransaction (util), line 127: client.signTransaction(signer, txn)
SignTransaction ==
    /\ call.pc = "signTransaction"
    /\ \E ok \in BOOLEAN :
          IF ~ok
          THEN Fail(JsError("signTransaction failed"))
          ELSE /\ fx' = [fx EXCEPT !.sdk = @ \cup {"signTransaction"}]
               /\ IF call.method = "signTransaction"
                  THEN Finish(call, Returned([type |-> "signedTxn", signer |-> fx.keyRead,
                                              sender |-> call.account.address, payload |-> call.arg]))
                  ELSE /\ call' = [call EXCEPT !.pc = "submitTransaction"]
                       /\ UNCHANGED outcome
    /\ UNCHANGED <<hookVars, lifecycle>>
    /\ UNCHANGED <<StorageVars, grants>>

\* signAndSubmitTransaction, line 217: aptosClient.submitTransaction(signedTxn)
SubmitTransaction ==
    /\ call.pc = "submitTransaction"
    /\ \E ok \in BOOLEAN :
          IF ~ok
          THEN Fail(JsError("submitTransaction failed"))
          ELSE /\ fx' = [fx EXCEPT !.sdk = @ \cup {"submitTransaction"}]
               /\ Finish(call, Returned([type |-> "pendingTxn", signer |-> fx.keyRead,
                                         sender |-> call.account.address, payload |-> call.arg]))
    /\ UNCHANGED <<hookVars, lifecycle>>
    /\ UNCHANGED <<StorageVars, grants>>

\* signMessage, lines 237-240: serialize the message and sign it with the signer's key
SignMessage ==
    /\ call.pc = "sign"
    /\ fx' = [fx EXCEPT !.sdk = @ \cup {"sign"}]
    /\ Finish(call, Returned([type |-> "hex", signer |-> fx.keyRead, message |-> call.arg]))
    /\ UNCHANGED <<hookVars, lifecycle>>
    /\ UNCHANGED <<StorageVars, grants>>

(***************************************************************************)
(* The user, from the browser and the wallet UI                            *)
(***************************************************************************)
ApiFrame == <<call, outcome, fx>>

ChangeTab ==
    /\ \E url \in TabUrls \cup {Undefined} :
          /\ url # tabUrl
          /\ tabUrl' = url
    /\ lifecycle' = "none"
    /\ UNCHANGED hookVars
    /\ UNCHANGED <<activeAccountAddress, activeAccountPublicKey, activeNetworkName,
                   sessionUnlocked, grants, ApiFrame>>

SwitchAccount ==
    /\ \E address \in Addresses \cup {Undefined} :
          /\ address # activeAccountAddress
          /\ activeAccountAddress' = address
          /\ activeAccountPublicKey' = PublicKeyOf(address)
    /\ lifecycle' = "none"
    /\ UNCHANGED hookVars
    /\ UNCHANGED <<activeNetworkName, sessionUnlocked, tabUrl, grants, ApiFrame>>

SwitchNetwork ==
    /\ \E name \in NetworkNames :
          /\ name # activeNetworkName
          /\ activeNetworkName' = name
    /\ UNCHANGED <<hookVars, lifecycle>>
    /\ UNCHANGED <<activeAccountAddress, activeAccountPublicKey, sessionUnlocked,
                   tabUrl, grants, ApiFrame>>

LockOrUnlock ==
    /\ sessionUnlocked' = ~sessionUnlocked
    /\ UNCHANGED <<hookVars, lifecycle>>
    /\ UNCHANGED <<activeAccountAddress, activeAccountPublicKey, activeNetworkName,
                   tabUrl, grants, ApiFrame>>

RevokePermission ==
    /\ \E pair \in grants : grants' = grants \ {pair}
    /\ lifecycle' = "none"
    /\ UNCHANGED hookVars
    /\ UNCHANGED <<StorageVars, ApiFrame>>

(***************************************************************************)
(* The coin transfer hooks (core/mutations/transaction.ts).  An optional   *)
(* value is a sequence: <<>> is undefined, <<v>> is v.                     *)
(***************************************************************************)
Recipients == {"0xB0B", "0xCAFE"}

\* The largest amount tried.
MaxAmount == 2

Amounts == -1 .. MaxAmount

Optional(S) == {<<>>} \cup {<<v>> : v \in S}

\* shared/transactions: the two payload builders
BuildCoinTransferPayload(recipient, amount) ==
    [function |-> "0x1::coin::transfer", arguments |-> <<recipient, amount>>]

BuildAccountTransferPayload(recipient, amount) ==
    [function |-> "0x1::aptos_account::transfer", arguments |-> <<recipient, amount>>]

NoPayload == [function |-> "none", arguments |-> <<>>]

\* useCoinTransferSimulation: const isReady = ...
IsReady(params) ==
    /\ params.recipient # <<>>
    /\ params.octaAmount # <<>>
    /\ Head(params.octaAmount) >= 0

\* useCoinTransferSimulation: enabled: isReady && options?.enabled
SimulationEnabled(params, optionsEnabled) ==
    IF ~IsReady(params) THEN <<FALSE>> ELSE optionsEnabled

\* A faulty SimulationPayload: the coin transfer builder unless the recipient is
\* known not to exist.
SimulationPayloadUnlessFalse(params) ==
    IF params.doesRecipientExist # <<FALSE>>
    THEN BuildCoinTransferPayload(Head(params.recipient), Head(params.octaAmount))
    ELSE BuildAccountTransferPayload(Head(params.recipient), Head(params.octaAmount))

\* useCoinTransferSimulation: the payload factory handed to useTransactionSimulation
SimulationPayload(params) ==
    IF params.doesRecipientExist = <<TRUE>>
    THEN BuildCoinTransferPayload(Head(params.recipient), Head(params.octaAmount))
    ELSE BuildAccountTransferPayload(Head(params.recipient), Head(params.octaAmount))

\* useCoinTransferTransaction: the payload factory handed to useTransactionSubmit
SubmitPayload(params) ==
    IF params.doesRecipientExist
    THEN BuildCoinTransferPayload(params.recipient, params.amount)
    ELSE BuildAccountTransferPayload(params.recipient, params.amount)

\* useTransactionSimulation: whether the query runs its payload factory
QueryMayRun(enabled) ==
    CASE enabled = <<TRUE>> -> {TRUE}
      [] enabled = <<FALSE>> -> {FALSE}
      [] OTHER -> BOOLEAN

IdleSimulation == [params |-> [doesRecipientExist |-> <<>>, octaAmount |-> <<>>, recipient |-> <<>>],
                   enabled |-> <<FALSE>>, ran |-> FALSE, payload |-> NoPayload]

IdleMutation == [pc |-> "idle", params |-> [amount |-> 0, doesRecipientExist |-> FALSE, recipient |-> "none"],
                 hasOnSuccess |-> FALSE, payload |-> NoPayload, txn |-> [success |-> FALSE],
                 log |-> <<>>]

\* A component renders useCoinTransferSimulation(params, options).
Simulate ==
    /\ \E doesRecipientExist \in Optional(BOOLEAN), octaAmount \in Optional(Amounts),
          recipient \in Optional(Recipients), optionsEnabled \in Optional(BOOLEAN) :
          LET params == [doesRecipientExist |-> doesRecipientExist, octaAmount |-> octaAmount,
                         recipient |-> recipient]
              enabled == SimulationEnabled(params, optionsEnabled)
          IN \E run \in QueryMayRun(enabled) :
                simulation' = [params |-> params, enabled |-> enabled, ran |-> run,
                               payload |-> IF run THEN SimulationPayload(params) ELSE NoPayload]
    /\ UNCHANGED <<apiVars, mutation, balanceQuery>>

\* mutate(params) on the mutation of useCoinTransferTransaction(options)
Mutate ==
    /\ mutation.pc # "submitting"
    /\ \E amount \in Amounts, doesRecipientExist \in BOOLEAN, recipient \in Recipients,
          hasOnSuccess \in BOOLEAN :
          LET params == [amount |-> amount, doesRecipientExist |-> doesRecipientExist,
                         recipient |-> recipient]
          IN mutation' = [pc |-> "submitting", params |-> params, hasOnSuccess |-> hasOnSuccess,
                          payload |-> SubmitPayload(params), txn |-> [success |-> FALSE],
                          log |-> <<>>]
    /\ UNCHANGED <<apiVars, simulation, balanceQuery>>

\* A faulty onSuccess: the caller's onSuccess runs before the invalidation.
OnSuccessCallerFirst(hasOnSuccess, txn, data) ==
    (IF hasOnSuccess
     THEN <<[op |-> "options.onSuccess", key |-> "", args |-> <<txn, data>>]>>
     ELSE <<>>)
    \o <<[op |-> "invalidateQueries", key |-> "getAccountOctaCoinBalance", args |-> <<>>]>>

\* useCoinTransferTransaction: onSuccess(txn, data, ...rest), as the calls it makes in order
OnSuccess(hasOnSuccess, txn, data) ==
    <<[op |-> "invalidateQueries", key |-> "getAccountOctaCoinBalance", args |-> <<>>]>>
    \o (IF hasOnSuccess
        THEN <<[op |-> "options.onSuccess", key |-> "", args |-> <<txn, data>>]>>
        ELSE <<>>)

\* queryClient.invalidateQueries on the balance query
Invalidated(log, query) ==
    IF \E i \in DOMAIN log : log[i].op = "invalidateQueries" THEN "invalidated" ELSE query

\* useTransactionSubmit: the submission succeeded, the mutation calls onSuccess
SubmitSucceeds ==
    /\ mutation.pc = "submitting"
    /\ \E success \in BOOLEAN :
          LET txn == [success |-> success]
              log == OnSuccess(mutation.hasOnSuccess, txn, mutation.params)
          IN /\ mutation' = [mutation EXCEPT !.pc = "success", !.txn = txn, !.log = log]
             /\ balanceQuery' = Invalidated(log, balanceQuery)
    /\ UNCHANGED <<apiVars, simulation>>

\* useTransactionSubmit: the submission failed, onSuccess is not called
SubmitFails ==
    /\ mutation.pc = "submitting"
    /\ mutation' = [mutation EXCEPT !.pc = "error"]
    /\ UNCHANGED <<apiVars, simulation, balanceQuery>>

\* react-query refetches the invalidated balance query
RefetchBalance ==
    /\ balanceQuery = "invalidated"
    /\ balanceQuery' = "fresh"
    /\ UNCHANGED <<apiVars, simulation, mutation>>

InitHooks ==
    /\ simulation = IdleSimulation
    /\ mutation = IdleMutation
    /\ balanceQuery = "fresh"

(***************************************************************************)
(* Specification                                                           *)
(***************************************************************************)
InitStorage ==
    /\ activeAccountAddress \in Addresses \cup {Undefined}
    /\ activeAccountPublicKey \in {PublicKeyOf(activeAccountAddress), Undefined}
    /\ activeNetworkName \in NetworkNames \cup {Undefined}
    /\ grants \in SUBSET (Domains \X Addresses)
    /\ sessionUnlocked \in BOOLEAN
    /\ tabUrl \in TabUrls \cup {Undefined}

Init ==
    /\ InitStorage
    /\ call = IdleCall
    /\ outcome = NoOutcome
    /\ fx = NoFx
    /\ lifecycle = "none"
    /\ InitHooks

Next ==
    \/ Invoke
    \/ EnsureActiveAccount
    \/ EnsureAccountConnectedDomain
    \/ EnsureAccountConnectedCheck
    \/ MethodDomain
    \/ RequestPermissions
    \/ Disconnect
    \/ IsConnected
    \/ ActiveNetwork
    \/ GetAptosAccount
    \/ GenerateTransaction
    \/ SignTransaction
    \/ SubmitTransaction
    \/ SignMessage
    \/ ChangeTab
    \/ SwitchAccount
    \/ SwitchNetwork
    \/ LockOrUnlock
    \/ RevokePermission

Spec == Init /\ [][Next]_vars

\* The wallet with one active tab and one active account, unchanged from outside.
InitSession ==
    /\ Init
    /\ activeAccountAddress # Undefined
    /\ activeAccountPublicKey # Undefined
    /\ tabUrl # Undefined

NextSession ==
    \/ Invoke
    \/ EnsureActiveAccount
    \/ EnsureAccountConnectedDomain
    \/ EnsureAccountConnectedCheck
    \/ MethodDomain
    \/ RequestPermissions
    \/ Disconnect
    \/ IsConnected
    \/ ActiveNetwork
    \/ GetAptosAccount
    \/ GenerateTransaction
    \/ SignTransaction
    \/ SubmitTransaction
    \/ SignMessage

SpecSession == InitSession /\ [][NextSession]_vars

\* The transfer hooks alone, the wallet's API at rest.
InitTransfer ==
    /\ activeAccountAddress = "0xA"
    /\ activeAccountPublicKey = "pkA"
    /\ activeNetworkName = Undefined
    /\ grants = {}
    /\ sessionUnlocked = TRUE
    /\ tabUrl = Undefined
    /\ call = IdleCall
    /\ outcome = NoOutcome
    /\ fx = NoFx
    /\ lifecycle = "none"
    /\ InitHooks

NextTransfer ==
    \/ Simulate
    \/ Mutate
    \/ SubmitSucceeds
    \/ SubmitFails
    \/ RefetchBalance

SpecTransfer == InitTransfer /\ [][NextTransfer]_vars

(***************************************************************************)
(* Properties of the public API                                            *)
(***************************************************************************)
\* The call in flight takes a step.
CallStep == call' # call

\* The call in flight returns or throws in this step.
Finishing == Running /\ ~Running'

SignKinds == {"SIGN_TRANSACTION", "SIGN_AND_SUBMIT_TRANSACTION", "SIGN_MESSAGE"}

SdkPcs == {"getAptosAccount", "generateTransaction", "signTransaction",
           "submitTransaction", "sign"}

\* The call touched the SDK or the private key.
SdkTouched == fx.keyRead # Undefined \/ fx.sdk # {} \/ call.pc \in SdkPcs

\* C1: every method starts with ensureActiveAccount, and when that step finds no
\* active account in persistent storage (the address or the public key missing) the
\* call ends there by throwing NO_ACCOUNTS, whatever the tab and the grants are: it
\* returns no result, reads no key and touches no grant.
C1_NoActiveAccountThrows ==
    [][/\ (~Running /\ Running') => call'.pc = "ensureActiveAccount"
       /\ ( /\ call.pc = "ensureActiveAccount"
            /\ CallStep
            /\ (activeAccountAddress = Undefined \/ activeAccountPublicKey = Undefined) )
          => /\ outcome' = Thrown(DappError("NO_ACCOUNTS"))
             /\ call'.pc = "done"
             /\ grants' = grants
             /\ fx'.keyRead = Undefined /\ fx'.sdk = {}]_vars

\* C1 witness: a call ended with NO_ACCOUNTS while the address is stored but the
\* public key is not, from a tab of a granted domain.
C1_Witness ==
    /\ call.pc = "done"
    /\ outcome = Thrown(DappError("NO_ACCOUNTS"))
    /\ activeAccountAddress # Undefined
    /\ activeAccountPublicKey = Undefined
    /\ tabUrl # Undefined
    /\ <<Hostname(tabUrl), activeAccountAddress>> \in grants

\* C2 (as stated): a call that ends while there is an active account and the tab's
\* domain has no grant for it ends by throwing UNAUTHORIZED or USER_REJECTION, never
\* by returning a result (a connect the user approves set aside).
C2_Original ==
    [][( /\ Finishing
         /\ ~(call.method = "connect" /\ call'.allowed)
         /\ call.account # UndefinedAccount
         /\ call.account = GetActiveAccount
         /\ tabUrl # Undefined
         /\ ~IsDomainAllowed(Hostname(tabUrl), call.account.address) )
       => /\ outcome'.kind = "thrown"
          /\ outcome'.error.name \in {"UNAUTHORIZED", "USER_REJECTION"}]_vars

\* C2 (amended): account, disconnect, network, signTransaction, signAndSubmitTransaction
\* and signMessage throw UNAUTHORIZED when the domain they resolved has no grant for the
\* active account, and do nothing further unless that check passed; isConnected returns
\* false for such a domain; connect prompts, throws USER_REJECTION when the user
\* declines and returns the account when the user approves.
C2_Unauthorized ==
    [][/\ ( /\ call.pc = "ensureAccountConnected.isDomainAllowed"
            /\ CallStep
            /\ ~IsDomainAllowed(call.checkedDomain, call.account.address) )
          => outcome' = Thrown(DappError("UNAUTHORIZED")) /\ call'.pc = "done"
       /\ ( /\ call.method \in ConnectedMethods
            /\ call.pc \in {"ensureActiveAccount", "ensureAccountConnected.getCurrentDomain"}
            /\ CallStep /\ Running' )
          => call'.pc \in {"ensureAccountConnected.getCurrentDomain",
                           "ensureAccountConnected.isDomainAllowed"}
       /\ ( /\ call.method \in ConnectedMethods
            /\ outcome'.kind = "returned" )
          => call'.isAllowed
       /\ ( /\ call.method = "isConnected" /\ call.pc = "isDomainAllowed" /\ CallStep
            /\ ~IsDomainAllowed(call.domain, call.account.address) )
          => outcome' = Returned([type |-> "boolean", bool |-> FALSE])
       /\ ( call.method = "connect" /\ call.pc = "requestPermissions" /\ CallStep )
          => /\ fx'.prompt = [kind |-> "CONNECT", domain |-> call.domain,
                              address |-> call.account.address]
             /\ IF call'.allowed
                THEN outcome' = Returned([type |-> "account", account |-> call.account])
                ELSE outcome' = Thrown(DappError("USER_REJECTION"))]_vars

\* C2 witness: disconnect from a domain without a grant ended with UNAUTHORIZED.
C2_Witness ==
    /\ call.pc = "done"
    /\ call.method = "disconnect"
    /\ call.checkedDomain # Undefined
    /\ ~call.isAllowed
    /\ outcome = Thrown(DappError("UNAUTHORIZED"))
    /\ fx.removed = {}

\* C3: a call that throws throws a member of the error-kind enumeration.
C3_OnlyEnumeratedErrors ==
    outcome.kind = "thrown" => outcome.error.name \in ErrorKinds

\* C4 (as stated): every method runs the guards in order, so a permission prompt is
\* requested, a domain removed and the SDK reached only after the authorization guard
\* of the call has passed.
C4_Original ==
    /\ (call.pc = "requestPermissions" \/ fx.prompt.kind \in SignKinds \cup {"CONNECT"})
          => call.account # UndefinedAccount /\ call.isAllowed
    /\ (fx.removed # {}) => call.isAllowed
    /\ SdkTouched => call.account # UndefinedAccount /\ call.isAllowed /\ call.allowed

\* C4 (amended): account, disconnect, network and the three signing methods run the
\* guards in order (active account, authorization, per-method prompt, SDK); connect and
\* isConnected run the active-account guard only, and connect requests its CONNECT
\* prompt whether or not the origin is authorized.  NO_ACCOUNTS comes before
\* UNAUTHORIZED, a signing prompt is requested only after the authorization guard of
\* the call passed, and the key is read and the SDK used only after all guards passed.
C4_GuardOrder ==
    /\ (call.pc \notin {"idle", "ensureActiveAccount"} /\ outcome.error.name # "NO_ACCOUNTS")
          => call.account # UndefinedAccount
    /\ (outcome.error.name = "NO_ACCOUNTS")
          => call.account = UndefinedAccount /\ call.checkedDomain = Undefined /\ ~call.isAllowed
    /\ (outcome.error.name = "UNAUTHORIZED") => call.account # UndefinedAccount
    /\ ( /\ call.method \in ConnectedMethods
         /\ call.pc \in {"getCurrentDomain", "requestPermissions", "removeDomain",
                         "getActiveNetwork"} \cup SdkPcs )
          => call.isAllowed
    /\ (fx.prompt.kind \in SignKinds) => call.account # UndefinedAccount /\ call.isAllowed
    /\ (fx.prompt.kind = "CONNECT") => call.method = "connect" /\ call.account # UndefinedAccount
    /\ (fx.removed # {}) => call.isAllowed
    /\ SdkTouched => call.account # UndefinedAccount /\ call.isAllowed /\ call.allowed

\* C4 witness: signAndSubmitTransaction submitted, all three guards passed.
C4_Witness ==
    /\ call.method = "signAndSubmitTransaction"
    /\ "submitTransaction" \in fx.sdk
    /\ call.isAllowed
    /\ call.allowed
    /\ outcome.kind = "returned"

\* C5: when the permission request of connect, signTransaction,
\* signAndSubmitTransaction or signMessage is answered with a denial, the call throws
\* USER_REJECTION: no key is read, nothing is signed or submitted, no account returned.
C5_DenialRejects ==
    [][(call.pc = "requestPermissions" /\ CallStep /\ ~call'.allowed)
       => /\ call.method \in PromptingMethods
          /\ fx'.prompt.kind = PermissionOf(call.method)
          /\ outcome' = Thrown(DappError("USER_REJECTION"))
          /\ call'.pc = "done"
          /\ fx'.keyRead = Undefined
          /\ fx'.sdk = {}]_vars

\* C5 witness: the SIGN_AND_SUBMIT_TRANSACTION prompt was denied and the call threw.
C5_Witness ==
    /\ call.pc = "done"
    /\ call.method = "signAndSubmitTransaction"
    /\ fx.prompt.kind = "SIGN_AND_SUBMIT_TRANSACTION"
    /\ ~call.allowed
    /\ outcome = Thrown(DappError("USER_REJECTION"))

\* C8: in signTransaction and signAndSubmitTransaction every failure of an SDK-facing
\* step (the signer read from a locked session store, generateTransaction,
\* signTransaction, submitTransaction) ends the call with the transaction-failure error
\* made from it; the raw error does not reach the caller and nothing is returned.
C8_SdkFailuresWrapped ==
    [][/\ ( /\ call.method \in TransactionMethods
            /\ call.pc \in SdkPcs
            /\ CallStep
            /\ (fx'.sdkError # "" \/ (call.pc = "getAptosAccount" /\ ~sessionUnlocked)) )
          => /\ outcome' = Thrown([name |-> "TRANSACTION_FAILURE", message |-> fx'.sdkError])
             /\ fx'.sdkError # ""
             /\ call'.pc = "done"
       /\ ( /\ call.method \in TransactionMethods
            /\ call.pc \in SdkPcs
            /\ outcome'.kind = "thrown" )
          => outcome'.error.name = "TRANSACTION_FAILURE"]_vars

\* C8 witness: signTransaction found the session store locked and threw the
\* transaction-failure error.
C8_Witness ==
    /\ call.pc = "done"
    /\ call.method = "signTransaction"
    /\ fx.sdkError = "accounts are locked"
    /\ outcome.error.name = "TRANSACTION_FAILURE"

\* C9: with the tab and the active account fixed and the grants changed by the API
\* alone: after a disconnect that returned, isConnected returns false and account,
\* network, disconnect and the signing methods throw UNAUTHORIZED until a connect is
\* approved; after an approved connect isConnected returns true and account returns the
\* active account.  disconnect removes the grant of the pair it checked and no other,
\* and isConnected, account and network change no grant.
C9_Lifecycle ==
    [][/\ ( Finishing /\ lifecycle = "disconnected" )
          => CASE call.method = "isConnected" ->
                     outcome' = Returned([type |-> "boolean", bool |-> FALSE])
               [] call.method = "connect" ->
                     outcome'.kind = "returned" <=> lifecycle' = "connected"
               [] OTHER -> outcome' = Thrown(DappError("UNAUTHORIZED"))
       /\ ( Finishing /\ lifecycle = "connected" )
          => /\ call.method = "isConnected"
                => outcome' = Returned([type |-> "boolean", bool |-> TRUE])
             /\ call.method = "account"
                => outcome' = Returned([type |-> "account", account |-> GetActiveAccount])
             /\ outcome'.error.name # "UNAUTHORIZED"
       /\ ( call.method \in {"isConnected", "account", "network"} ) => grants' = grants
       /\ ( call.method = "disconnect" /\ CallStep )
          => IF outcome'.kind = "returned"
             THEN /\ grants' = grants \ {<<call.checkedDomain, call.account.address>>}
                  /\ <<call.checkedDomain, call.account.address>> \in grants
                  /\ lifecycle' = "disconnected"
             ELSE grants' = grants]_vars

\* C9 witness: after a disconnect isConnected returned false, the grant of another
\* domain still there.
C9_Witness ==
    /\ lifecycle = "disconnected"
    /\ call.pc = "done"
    /\ call.method = "isConnected"
    /\ outcome = Returned([type |-> "boolean", bool |-> FALSE])
    /\ grants # {}

\* C10: the domain handed to the permission request of a signing method and to
\* removeDomain is the domain ensureAccountConnected checked, and the address whose key
\* is read is the address it checked.
C10_SameDomain ==
    /\ (fx.prompt.kind \in SignKinds)
          => /\ fx.prompt.domain = call.checkedDomain
             /\ fx.prompt.address = call.account.address
    /\ (fx.removed # {}) => fx.removed = {<<call.checkedDomain, call.account.address>>}
    /\ (fx.keyRead # Undefined) => fx.keyRead = call.account.address

(***************************************************************************)
(* Properties of the transfer hooks                                        *)
(***************************************************************************)
BalanceInvalidation == [op |-> "invalidateQueries", key |-> "getAccountOctaCoinBalance", args |-> <<>>]

\* C6: a submission that succeeds invalidates the getAccountOctaCoinBalance query
\* first and then calls the caller's onSuccess, when given, once with the transaction
\* and the submitted data; a submission that fails invalidates nothing.
C6_InvalidateThenCallback ==
    [][/\ ( mutation.pc = "submitting" /\ mutation'.pc = "success" )
          => /\ balanceQuery' = "invalidated"
             /\ Len(mutation'.log) >= 1
             /\ mutation'.log[1] = BalanceInvalidation
             /\ IF mutation.hasOnSuccess
                THEN /\ Len(mutation'.log) = 2
                     /\ mutation'.log[2] = [op |-> "options.onSuccess", key |-> "",
                                            args |-> <<mutation'.txn, mutation.params>>]
                ELSE Len(mutation'.log) = 1
       /\ ( mutation.pc = "submitting" /\ mutation'.pc = "error" )
          => /\ balanceQuery' = balanceQuery
             /\ mutation'.log = <<>>]_vars

\* C6 witness: a submission succeeded for a caller that gave an onSuccess:
\* the query is invalidated and the callback was called second.
C6_Witness ==
    /\ mutation.pc = "success"
    /\ mutation.hasOnSuccess
    /\ Len(mutation.log) = 2
    /\ mutation.log[2].op = "options.onSuccess"
    /\ balanceQuery = "invalidated"

\* C7: both hooks build the payload with the coin transfer builder exactly when
\* doesRecipientExist is true and with the account transfer builder otherwise (false,
\* and undefined in the simulation hook), from the given recipient and amount.
C7_BuilderTracksFlag ==
    /\ simulation.ran
          => /\ simulation.payload.function =
                    (IF simulation.params.doesRecipientExist = <<TRUE>>
                     THEN "0x1::coin::transfer" ELSE "0x1::aptos_account::transfer")
             /\ simulation.payload.arguments =
                    <<simulation.params.recipient[1], simulation.params.octaAmount[1]>>
    /\ mutation.pc # "idle"
          => /\ mutation.payload.function =
                    (IF mutation.params.doesRecipientExist
                     THEN "0x1::coin::transfer" ELSE "0x1::aptos_account::transfer")
             /\ mutation.payload.arguments =
                    <<mutation.params.recipient, mutation.params.amount>>

\* C7 witness: a simulation ran with doesRecipientExist undefined and built the
\* account transfer payload.
C7_Witness ==
    /\ simulation.ran
    /\ simulation.params.doesRecipientExist = <<>>
    /\ simulation.payload.function = "0x1::aptos_account::transfer"
    /\ simulation.payload.arguments = <<"0xB0B", 0>>

====
